---- MODULE Spec2Model ----
(***************************************************************************)
(* ctlearn/utils.py: setup_logging, setup_DL1DataReader, load_from_module. *)
(*                                                                         *)
(* Python values are modelled as follows.                                  *)
(*   - a str is a sequence of symbols (a line of a list file is a sequence *)
(*     of characters; a path is a sequence of name parts, its suffix       *)
(*     ".txt" / ".h5" being the last symbol);                              *)
(*   - a dict is a function whose DOMAIN is the set of keys present;       *)
(*   - a list is a sequence;                                               *)
(*   - a value that may be None, or may have one of several Python types,  *)
(*     is a tagged record.                                                 *)
(***************************************************************************)
EXTENDS Integers, Sequences, FiniteSets, TLC

VARIABLES
    config,      \* the `config` dict handed to setup_DL1DataReader (mutated in place)
    mode,        \* the `mode` argument of setup_DL1DataReader
    pc,          \* position inside setup_DL1DataReader, or "returned" / "raised"
    exc,         \* the exception type that ended the call, "none" otherwise
    frame,       \* locals of setup_DL1DataReader that live across its blocks
    sys_path,    \* sys.path of the interpreter
    fs,          \* list files on disk: path -> raw lines
    loaded,      \* outcome of the last direct load_from_module call
    logger,      \* the root logger: level and handlers
    clock,       \* wall clock, in seconds, as time.strftime renders it
    log_call,    \* arguments and outcome of the last setup_logging call
    config0,     \* history: `config` as it was when the call started
    sys_path0    \* history: sys.path before the first call

vars == <<config, mode, pc, exc, frame, sys_path, fs, loaded, logger, clock,
          log_call, config0, sys_path0>>

----------------------------------------------------------------------------
(* Bounds of the model. *)

\* longest list file, in lines
MaxLines == 2
\* longest Tasks list
MaxTasks == 3
\* longest event_selection / transforms list given by the user
MaxEntries == 2
\* longest initial sys.path
MaxSysPath == 2
\* number of setup_logging calls in one run
MaxLogCalls == 3

----------------------------------------------------------------------------
(* Generic helpers. *)

Range(s) == {s[i] : i \in DOMAIN s}

SeqsUpTo(S, n) == UNION {[1..k -> S] : k \in 0..n}

Count(x, s) == Cardinality({i \in DOMAIN s : s[i] = x})

\* d[k] = v on a dict
DictSet(d, k, v) == (k :> v) @@ d

\* del d[k]
DictDel(d, k) == [j \in DOMAIN d \ {k} |-> d[j]]

EmptyDict == <<>>

----------------------------------------------------------------------------
(* str.strip, str.endswith and the parsing of a list file. *)

Whitespace == {" ", "\t", "\n"}

RECURSIVE LStrip(_)
LStrip(s) ==
    IF s # <<>> /\ Head(s) \in Whitespace THEN LStrip(Tail(s)) ELSE s

RECURSIVE RStrip(_)
RStrip(s) ==
    IF s # <<>> /\ s[Len(s)] \in Whitespace
    THEN RStrip(SubSeq(s, 1, Len(s) - 1))
    ELSE s

Strip(s) == RStrip(LStrip(s))

EndsWith(s, suffix) ==
    /\ Len(s) >= Len(suffix)
    /\ SubSeq(s, Len(s) - Len(suffix) + 1, Len(s)) = suffix

\* KeepLine without the test for a comment
KeepLine_KeepsComments(line) == line # <<>>

\* `if line and line[0] != "#"` on the stripped line
KeepLine(line) == line # <<>> /\ line[1] # "#"

\* the loop `for line in f: ...; data_files.append(line)`
RECURSIVE ParseFileList(_)
ParseFileList(lines) ==
    IF lines = <<>> THEN <<>>
    ELSE LET line == Strip(Head(lines))
         IN  (IF KeepLine(line) THEN <<line>> ELSE <<>>)
                 \o ParseFileList(Tail(lines))

\* open(path): the file must exist
FileExists(path, files) == path \in DOMAIN files

----------------------------------------------------------------------------
(* Tagged Python values. *)

PyStr(p)  == [type |-> "str",      str |-> p,    list |-> <<>>]
PyList(l) == [type |-> "list",     str |-> <<>>, list |-> l]
PyNone    == [type |-> "NoneType", str |-> <<>>, list |-> <<>>]

NonePath    == [isNone |-> TRUE,  v |-> ""]
SomePath(p) == [isNone |-> FALSE, v |-> p]
NoneArgs    == [isNone |-> TRUE,  v |-> EmptyDict]
SomeArgs(d) == [isNone |-> FALSE, v |-> d]

----------------------------------------------------------------------------
(* load_from_module and the modules it can import. *)

\* directory each importable module lives in
ModuleDir ==
    ("dl1_data_handler.filters" :> "site-packages")
    @@ ("dl1_data_handler.transforms" :> "site-packages")
    @@ ("user_filters" :> "/opt/user")

\* attributes of each module
ModuleAttrs ==
    ("dl1_data_handler.filters" :> {"event_intensity_filter", "image_intensity_filter"})
    @@ ("dl1_data_handler.transforms" :>
            {"ShowerPrimaryID", "MCEnergy", "AltAz", "DeltaAltAz_fix_subarray"})
    @@ ("user_filters" :> {"event_intensity_filter", "my_filter"})

NoFn == [module |-> "", name |-> ""]

\* AddPath without the test `path not in sys.path`
AddPath_Always(path, sp) == IF ~path.isNone THEN Append(sp, path.v) ELSE sp

\* `if path is not None and path not in sys.path: sys.path.append(path)`
AddPath(path, sp) ==
    IF ~path.isNone /\ path.v \notin Range(sp) THEN Append(sp, path.v) ELSE sp

\* `params = args if args is not None else {}`
Params(args) == IF ~args.isNone THEN args.v ELSE EmptyDict

\* `fn = getattr(mod, name)`: the attribute is identified by module and name
GetAttr(module, name) == [module |-> module, name |-> name]

LoadFromModule(name, module, path, args, sp) ==
    LET sp1 == AddPath(path, sp)
    IN  IF module \notin DOMAIN ModuleDir \/ ModuleDir[module] \notin Range(sp1)
        THEN [exc |-> "ModuleNotFoundError", fn |-> NoFn, params |-> EmptyDict,
              sys_path |-> sp1]
        ELSE IF name \notin ModuleAttrs[module]
        THEN [exc |-> "AttributeError", fn |-> NoFn, params |-> EmptyDict,
              sys_path |-> sp1]
        ELSE [exc |-> "none", fn |-> GetAttr(module, name), params |-> Params(args),
              sys_path |-> sp1]

----------------------------------------------------------------------------
(* setup_DL1DataReader, block by block.  Each block is a function of the   *)
(* call state cs = [config, frame, sys_path, exc]; a block that raises     *)
(* leaves in cs.config what the code had already written.                  *)

Raise(cs, e) == [cs EXCEPT !.exc = e]

SetData(cs, k, v) == [cs EXCEPT !.config.Data = DictSet(@, k, v)]

\* TrainFileList without the isinstance(..., list) test of line 54
TrainFileList_NoTypeCheck(cs, files) ==
    IF "file_list" \notin DOMAIN cs.config.Data THEN Raise(cs, "KeyError")
    ELSE LET fl == cs.config.Data.file_list
         IN  IF fl.type = "str" /\ ~FileExists(fl.str, files)
             THEN Raise(cs, "FileNotFoundError")
             ELSE IF fl.type = "str"
                  THEN SetData(cs, "file_list", PyList(ParseFileList(files[fl.str])))
                  ELSE cs

\* lines 46-56: mode in ['train', 'load_only']
TrainFileList(cs, files) ==
    IF "file_list" \notin DOMAIN cs.config.Data THEN Raise(cs, "KeyError")
    ELSE LET fl == cs.config.Data.file_list
         IN  IF fl.type = "str" /\ ~FileExists(fl.str, files)
             THEN Raise(cs, "FileNotFoundError")
             ELSE LET cs1 == IF fl.type = "str"
                             THEN SetData(cs, "file_list",
                                          PyList(ParseFileList(files[fl.str])))
                             ELSE cs
                  IN  IF cs1.config.Data.file_list.type # "list"
                      THEN Raise(cs1, "ValueError")
                      ELSE cs1

\* line 69: `if not isinstance(config['Data']['file_list'], list)`
CheckPredictionFileList(cs) ==
    IF "file_list" \notin DOMAIN cs.config.Data THEN Raise(cs, "KeyError")
    ELSE IF cs.config.Data.file_list.type # "list" THEN Raise(cs, "ValueError")
    ELSE cs

\* lines 58-71: any other mode
PredictionFileList(cs, files) ==
    IF \/ "Prediction" \notin DOMAIN cs.config
       \/ "prediction_file_lists" \notin DOMAIN cs.config.Prediction
       \/ "prediction_label" \notin DOMAIN cs.config.Prediction
       \/ cs.config.Prediction.prediction_label
              \notin DOMAIN cs.config.Prediction.prediction_file_lists
    THEN Raise(cs, "KeyError")
    ELSE LET file_list == cs.config.Prediction.prediction_file_lists[
                              cs.config.Prediction.prediction_label]
         IN  IF EndsWith(file_list, <<".txt">>)
             THEN IF ~FileExists(file_list, files)
                  THEN Raise(cs, "FileNotFoundError")
                  ELSE CheckPredictionFileList(
                           SetData(cs, "file_list",
                                   PyList(ParseFileList(files[file_list]))))
             ELSE IF EndsWith(file_list, <<".h5">>)
             THEN CheckPredictionFileList(
                      SetData(cs, "file_list", PyList(<<file_list>>)))
             ELSE CheckPredictionFileList(cs)

\* lines 45-71
FileListBlock(cs, m, files) ==
    IF m \in {"train", "load_only"}
    THEN TrainFileList(cs, files)
    ELSE PredictionFileList(cs, files)

\* line 75: `del config['Data']['allow_overwrite']`
DelAllowOverwrite(cs) ==
    IF "allow_overwrite" \notin DOMAIN cs.config.Data
    THEN Raise(cs, "KeyError")
    ELSE [cs EXCEPT !.config.Data = DictDel(@, "allow_overwrite")]

\* lines 73-75
OptionsBlock(cs) ==
    LET data_format == IF "Data_format" \in DOMAIN cs.config
                       THEN cs.config.Data_format ELSE "stage1"
        allow_overwrite == IF "allow_overwrite" \in DOMAIN cs.config.Data
                           THEN cs.config.Data.allow_overwrite ELSE TRUE
    IN  DelAllowOverwrite(
            [cs EXCEPT !.frame.data_format = data_format,
                       !.frame.allow_overwrite = allow_overwrite])

\* LoadEntry with `s = {**s, 'module': default}`: the default module wins
LoadEntry_DefaultModuleWins(entry, default, sp) ==
    IF "name" \notin DOMAIN entry
    THEN [exc |-> "TypeError", fn |-> NoFn, params |-> EmptyDict, sys_path |-> sp]
    ELSE LoadFromModule(
             entry.name,
             default,
             IF "path" \in DOMAIN entry THEN entry.path ELSE NonePath,
             IF "args" \in DOMAIN entry THEN entry.args ELSE NoneArgs,
             sp)

\* `s = {'module': default, **s}; load_from_module(**s)`
LoadEntry(entry, default, sp) ==
    IF "name" \notin DOMAIN entry
    THEN [exc |-> "TypeError", fn |-> NoFn, params |-> EmptyDict, sys_path |-> sp]
    ELSE LoadFromModule(
             entry.name,
             IF "module" \in DOMAIN entry THEN entry.module ELSE default,
             IF "path" \in DOMAIN entry THEN entry.path ELSE NonePath,
             IF "args" \in DOMAIN entry THEN entry.args ELSE NoneArgs,
             sp)

\* a selection before it is parsed (a list of entries) and after (a dict
\* filter_fn -> filter_params, held as its set of items)
SelectionList(entries) == [type |-> "list", entries |-> entries, table |-> {}]
SelectionDict(table)   == [type |-> "dict", entries |-> <<>>, table |-> table]

\* `selection[filter_fn] = filter_params`
TableSet(table, fn, params) ==
    {e \in table : e.fn # fn} \cup {[fn |-> fn, params |-> params]}

\* the loop of lines 83-86 (and 91-94) over `entries`, from table `table`
RECURSIVE LoadFilters(_, _, _)
LoadFilters(entries, table, sp) ==
    IF entries = <<>>
    THEN [exc |-> "none", table |-> table, sys_path |-> sp]
    ELSE LET r == LoadEntry(Head(entries), "dl1_data_handler.filters", sp)
         IN  IF r.exc # "none"
             THEN [exc |-> r.exc, table |-> table, sys_path |-> r.sys_path]
             ELSE LoadFilters(Tail(entries), TableSet(table, r.fn, r.params),
                              r.sys_path)

\* `config['Data'].get(key, {})` iterated
SelectionEntries(cs, key) ==
    IF key \in DOMAIN cs.config.Data THEN cs.config.Data[key].entries ELSE <<>>

\* lines 82-87, and 90-95 with key = 'image_selection'
ParseSelection(cs, key) ==
    LET r == LoadFilters(SelectionEntries(cs, key), {}, cs.sys_path)
    IN  IF r.exc # "none"
        THEN [cs EXCEPT !.sys_path = r.sys_path, !.exc = r.exc]
        ELSE [SetData(cs, key, SelectionDict(r.table)) EXCEPT !.sys_path = r.sys_path]

\* lines 82-95
ParseSelections(cs) ==
    LET cs1 == ParseSelection(cs, "event_selection")
    IN  IF cs1.exc # "none" THEN cs1 ELSE ParseSelection(cs1, "image_selection")

Entry(name) == [name |-> name]
EntryArgs(name, args) == [name |-> name, args |-> SomeArgs(args)]

\* lines 98-107
TaskEventInfoDl1dh(tasks) ==
    (IF "particletype" \in Range(tasks) THEN <<"shower_primary_id">> ELSE <<>>)
    \o (IF "energy" \in Range(tasks) THEN <<"mc_energy">> ELSE <<>>)
    \o (IF "direction" \in Range(tasks) THEN <<"alt", "az">> ELSE <<>>)

TaskTransformsDl1dh(tasks) ==
    (IF "particletype" \in Range(tasks)
     THEN <<EntryArgs("ShowerPrimaryID",
                      ("name" :> "particletype")
                      @@ ("particle_id_col_name" :> "shower_primary_id"))>>
     ELSE <<>>)
    \o (IF "energy" \in Range(tasks)
        THEN <<EntryArgs("MCEnergy", ("energy_col_name" :> "mc_energy"))>>
        ELSE <<>>)
    \o (IF "direction" \in Range(tasks)
        THEN <<EntryArgs("AltAz",
                         ("alt_col_name" :> "alt") @@ ("az_col_name" :> "az")
                         @@ ("deg2rad" :> "False"))>>
        ELSE <<>>)

\* TaskEventInfoStage1 with the columns in the order of Tasks
RECURSIVE TaskEventInfoStage1_InTasksOrder(_)
TaskEventInfoStage1_InTasksOrder(tasks) ==
    IF tasks = <<>> THEN <<>>
    ELSE (CASE Head(tasks) = "particletype" -> <<"true_shower_primary_id">>
            [] Head(tasks) = "energy" -> <<"true_energy">>
            [] Head(tasks) = "direction" -> <<"true_alt", "true_az">>
            [] OTHER -> <<>>)
         \o TaskEventInfoStage1_InTasksOrder(Tail(tasks))

\* lines 110-119
TaskEventInfoStage1(tasks) ==
    (IF "particletype" \in Range(tasks) THEN <<"true_shower_primary_id">> ELSE <<>>)
    \o (IF "energy" \in Range(tasks) THEN <<"true_energy">> ELSE <<>>)
    \o (IF "direction" \in Range(tasks) THEN <<"true_alt", "true_az">> ELSE <<>>)

TaskTransformsStage1(tasks) ==
    (IF "particletype" \in Range(tasks) THEN <<Entry("ShowerPrimaryID")>> ELSE <<>>)
    \o (IF "energy" \in Range(tasks) THEN <<Entry("MCEnergy")>> ELSE <<>>)
    \o (IF "direction" \in Range(tasks)
        THEN <<Entry("DeltaAltAz_fix_subarray")>> ELSE <<>>)

\* lines 77-119
SelectBlock(cs) ==
    IF "Tasks" \notin DOMAIN cs.config THEN Raise(cs, "KeyError")
    ELSE LET tasks == cs.config.Tasks
         IN  IF cs.frame.data_format = "dl1dh"
             THEN LET cs1 == ParseSelections(cs)
                  IN  IF cs1.exc # "none" THEN cs1
                      ELSE [cs1 EXCEPT
                              !.frame.event_info = TaskEventInfoDl1dh(tasks),
                              !.frame.transformations = TaskTransformsDl1dh(tasks)]
             ELSE [cs EXCEPT
                     !.frame.event_info = TaskEventInfoStage1(tasks),
                     !.frame.transformations = TaskTransformsStage1(tasks)]

\* Data['transforms'] as the user gives it (a list of entries) and as the
\* call leaves it (a list of transform objects)
TransformEntries(entries) ==
    [type |-> "entries", entries |-> entries, objects |-> <<>>]
TransformObjects(objects) ==
    [type |-> "objects", entries |-> <<>>, objects |-> objects]

\* `transform(**args)`: the object is identified by its class and arguments
Instance(fn, args) == [cls |-> fn, kwargs |-> args]

\* the loop of lines 128-131
RECURSIVE LoadTransforms(_, _, _)
LoadTransforms(entries, transforms, sp) ==
    IF entries = <<>>
    THEN [exc |-> "none", transforms |-> transforms, sys_path |-> sp]
    ELSE LET r == LoadEntry(Head(entries), "dl1_data_handler.transforms", sp)
         IN  IF r.exc # "none"
             THEN [exc |-> r.exc, transforms |-> transforms, sys_path |-> r.sys_path]
             ELSE LoadTransforms(Tail(entries),
                                 Append(transforms, Instance(r.fn, r.params)),
                                 r.sys_path)

\* Overwrite that keeps an event_info the user supplied
Overwrite_KeepsUserEventInfo(cs) ==
    IF cs.frame.allow_overwrite
    THEN IF "event_info" \in DOMAIN cs.config.Data
         THEN cs
         ELSE SetData(cs, "event_info", cs.frame.event_info)
    ELSE [cs EXCEPT !.frame.transformations =
                        IF "transforms" \in DOMAIN cs.config.Data
                        THEN cs.config.Data.transforms.entries ELSE <<>>]

\* lines 121-124
Overwrite(cs) ==
    IF cs.frame.allow_overwrite
    THEN SetData(cs, "event_info", cs.frame.event_info)
    ELSE [cs EXCEPT !.frame.transformations =
                        IF "transforms" \in DOMAIN cs.config.Data
                        THEN cs.config.Data.transforms.entries ELSE <<>>]

\* lines 121-132
TransformsBlock(cs) ==
    LET cs1 == Overwrite(cs)
        r   == LoadTransforms(cs1.frame.transformations, <<>>, cs1.sys_path)
    IN  IF r.exc # "none"
        THEN [cs1 EXCEPT !.sys_path = r.sys_path, !.exc = r.exc]
        ELSE [SetData(cs1, "transforms", TransformObjects(r.transforms))
                  EXCEPT !.sys_path = r.sys_path]

ShapeList(dims)  == [type |-> "list",  dims |-> dims]
ShapeTuple(dims) == [type |-> "tuple", dims |-> dims]

\* lines 135-136
MappingBlock(cs) ==
    IF /\ "mapping_settings" \in DOMAIN cs.config.Data
       /\ "interpolation_image_shape" \in DOMAIN cs.config.Data.mapping_settings
    THEN [cs EXCEPT !.config.Data.mapping_settings.interpolation_image_shape =
                        [k \in DOMAIN @ |-> ShapeTuple(@[k].dims)]]
    ELSE cs

\* lines 146-148
AddEventIdentifiers(cs) ==
    LET cs1 == IF "event_info" \notin DOMAIN cs.config.Data
               THEN SetData(cs, "event_info", <<>>) ELSE cs
    IN  SetData(cs1, "event_info",
                cs1.config.Data.event_info \o <<"event_id", "obs_id">>)

\* AddArrayIdentifier without the test `config['Data']['mode'] == 'mono'`
AddArrayIdentifier_AnyMode(cs) ==
    IF "mode" \notin DOMAIN cs.config.Data THEN Raise(cs, "KeyError")
    ELSE LET cs1 == IF "array_info" \notin DOMAIN cs.config.Data
                    THEN SetData(cs, "array_info", <<>>) ELSE cs
         IN  SetData(cs1, "array_info", Append(cs1.config.Data.array_info, "id"))

\* lines 149-152
AddArrayIdentifier(cs) ==
    IF "mode" \notin DOMAIN cs.config.Data THEN Raise(cs, "KeyError")
    ELSE IF cs.config.Data.mode = "mono"
    THEN LET cs1 == IF "array_info" \notin DOMAIN cs.config.Data
                    THEN SetData(cs, "array_info", <<>>) ELSE cs
         IN  SetData(cs1, "array_info", Append(cs1.config.Data.array_info, "id"))
    ELSE cs

\* line 145: `config['Prediction'].get('save_identifiers', False)`
SaveIdentifiers(cs) ==
    /\ "save_identifiers" \in DOMAIN cs.config.Prediction
    /\ cs.config.Prediction.save_identifiers

\* lines 140-152
IdentifiersBlock(cs, m) ==
    IF m = "predict"
    THEN LET cs1 == IF "Prediction" \notin DOMAIN cs.config
                    THEN [cs EXCEPT !.config = DictSet(@, "Prediction", EmptyDict)]
                    ELSE cs
         IN  IF SaveIdentifiers(cs1)
             THEN AddArrayIdentifier(AddEventIdentifiers(cs1))
             ELSE cs1
    ELSE cs

\* locals before line 73 has run
Frame0 ==
    [data_format |-> "", allow_overwrite |-> FALSE, transformations |-> <<>>,
     event_info |-> <<>>]

Then(cs, Block(_)) == IF cs.exc # "none" THEN cs ELSE Block(cs)

\* lines 43-154: the whole call, on `cfg` with sys.path `sp` and disk `files`
SetupDL1DataReader(cfg, m, files, sp) ==
    LET cs0 == [config |-> cfg, frame |-> Frame0, sys_path |-> sp, exc |-> "none"]
        Ids(cs) == IdentifiersBlock(cs, m)
    IN  Then(Then(Then(Then(Then(FileListBlock(cs0, m, files),
             OptionsBlock), SelectBlock), TransformsBlock), MappingBlock), Ids)

----------------------------------------------------------------------------
(* The call of setup_DL1DataReader as steps of the state machine. *)

CallState ==
    [config |-> config, frame |-> frame, sys_path |-> sys_path, exc |-> exc]

Step(cs, next) ==
    /\ config' = cs.config
    /\ frame' = cs.frame
    /\ sys_path' = cs.sys_path
    /\ exc' = cs.exc
    /\ pc' = IF cs.exc = "none" THEN next ELSE "raised"
    /\ UNCHANGED <<mode, fs, loaded, logger, clock, log_call, config0, sys_path0>>

FileList ==
    /\ pc = "file_list"
    /\ Step(FileListBlock(CallState, mode, fs), "options")

Options ==
    /\ pc = "options"
    /\ Step(OptionsBlock(CallState), "select")

Select ==
    /\ pc = "select"
    /\ Step(SelectBlock(CallState), "transforms")

Transforms ==
    /\ pc = "transforms"
    /\ Step(TransformsBlock(CallState), "mapping")

Mapping ==
    /\ pc = "mapping"
    /\ Step(MappingBlock(CallState), "identifiers")

\* lines 139-154: the last block and `return config['Data']`
Identifiers ==
    /\ pc = "identifiers"
    /\ Step(IdentifiersBlock(CallState, mode), "returned")

NextReader ==
    \/ FileList
    \/ Options
    \/ Select
    \/ Transforms
    \/ Mapping
    \/ Identifiers

----------------------------------------------------------------------------
(* Direct calls of load_from_module. *)

PathPool == {"site-packages", "/opt/user", "/data/extra"}

LoadNames == {"event_intensity_filter", "my_filter"}

LoadModules == {"dl1_data_handler.filters", "user_filters", "no_such_module"}

LoadPaths == {NonePath} \cup {SomePath(p) : p \in PathPool}

LoadArgs == {NoneArgs, SomeArgs(EmptyDict), SomeArgs(("min_value" :> "50"))}

Loaded0 ==
    [name |-> "", module |-> "", path |-> NonePath, args |-> NoneArgs,
     exc |-> "none", fn |-> NoFn, params |-> EmptyDict, before |-> <<>>]

LoadCall ==
    \E name \in LoadNames, module \in LoadModules, path \in LoadPaths,
       args \in LoadArgs :
        LET r == LoadFromModule(name, module, path, args, sys_path)
        IN  /\ sys_path' = r.sys_path
            /\ loaded' = [name |-> name, module |-> module, path |-> path,
                          args |-> args, exc |-> r.exc, fn |-> r.fn,
                          params |-> r.params, before |-> sys_path]
            /\ UNCHANGED <<config, mode, pc, exc, frame, fs, logger, clock,
                           log_call, config0, sys_path0>>

NextLoad == LoadCall

----------------------------------------------------------------------------
(* setup_logging. *)

\* os.path.join(log_dir, time_str + suffix)
LogPath(log_dir, time_str, suffix) ==
    [dir |-> log_dir, time |-> time_str, suffix |-> suffix]

NoLogPath == LogPath("", 0, "")

Formatter == "%(levelname)s:%(message)s"

\* a handler object; `owner` is the call that created it (0: none of ours)
StreamHandler(owner) ==
    [kind |-> "StreamHandler", filename |-> NoLogPath, formatter |-> "",
     owner |-> owner]
FileHandler(filename, owner) ==
    [kind |-> "FileHandler", filename |-> filename, formatter |-> "",
     owner |-> owner]

\* lines 32-36
NewHandler(log_dir, time_str, log_to_file, owner) ==
    IF ~log_to_file
    THEN StreamHandler(owner)
    ELSE FileHandler(LogPath(log_dir, time_str, "_logfile.log"), owner)

\* lines 26-29
Level(debug) == IF debug THEN "DEBUG" ELSE "INFO"

\* Handlers without line 31: the old handlers stay
Handlers_Accumulate(old, handler) == Append(old, handler)

\* line 31 and line 38: the handlers the logger is left with
Handlers(old, handler) == <<handler>>

\* lines 24-38
ConfigureLogger(lg, log_dir, time_str, debug, log_to_file, owner) ==
    [level |-> Level(debug),
     handlers |-> Handlers(lg.handlers,
                           [NewHandler(log_dir, time_str, log_to_file, owner)
                               EXCEPT !.formatter = Formatter])]

\* directories that exist
LogDirs == {"logs"}

LogCall0 ==
    [n |-> 0, log_dir |-> "", debug |-> FALSE, log_to_file |-> FALSE,
     time |-> 0, exc |-> "none"]

\* lines 12-40; the clock may have moved on since the last call
SetupLogging ==
    /\ log_call.n < MaxLogCalls
    /\ \E log_dir \in LogDirs \cup {"missing"}, debug \in BOOLEAN,
          log_to_file \in BOOLEAN, now \in {clock, clock + 1} :
        LET n == log_call.n + 1
            ok == log_dir \in LogDirs
        IN  /\ clock' = now
            /\ log_call' = [n |-> n, log_dir |-> log_dir, debug |-> debug,
                            log_to_file |-> log_to_file, time |-> now,
                            exc |-> IF ok THEN "none" ELSE "FileNotFoundError"]
            /\ logger' = IF ok
                         THEN ConfigureLogger(logger, log_dir, now, debug,
                                              log_to_file, n)
                         ELSE logger
    /\ UNCHANGED <<config, mode, pc, exc, frame, sys_path, fs, loaded, config0,
                   sys_path0>>

NextLog == SetupLogging

----------------------------------------------------------------------------
(* Inputs. *)

\* a dict holding key k with a value of S, or not holding it
Opt(k, S) == {EmptyDict} \cup {(k :> v) : v \in S}

Modes == {"train", "load_only", "predict", "trial"}

TrainTxt == <<"runs", ".txt">>
TrainH5  == <<"gamma", ".h5">>
PredTxt  == <<"pred", ".txt">>
PredH5   == <<"pred", ".h5">>
PredCsv  == <<"pred", ".csv">>

\* raw lines of a list file, as iterating the file yields them
Lines ==
    { <<"\n">>,
      <<" ", "a", " ", "\n">>,
      <<"#", "a", "\n">>,
      <<"\t", "#", "\n">>,
      <<"b", "\n">> }

Files == SeqsUpTo(Lines, MaxLines)

\* the tasks the code knows, and one it does not
TaskNames == {"particletype", "energy", "direction", "cameratype"}

Prediction(path, label) ==
    [prediction_file_lists |-> ("gamma" :> path), prediction_label |-> label]

Logger0 == [level |-> "WARNING", handlers |-> <<>>]

\* the state when setup_DL1DataReader(cfg, m) is entered
Enter(cfgs, modes, disks) ==
    /\ config \in cfgs
    /\ config0 = config
    /\ mode \in modes
    /\ fs \in disks
    /\ pc = "file_list"
    /\ exc = "none"
    /\ frame = Frame0
    /\ sys_path = <<"site-packages">>
    /\ sys_path0 = sys_path
    /\ loaded = Loaded0
    /\ logger = Logger0
    /\ clock = 0
    /\ log_call = LogCall0

\* --- file lists ---------------------------------------------------------

FileListValues == {PyStr(TrainTxt), PyList(<<>>), PyList(<<TrainH5>>), PyNone}

FilesConfigs ==
    { ("Data" :> (fl @@ [allow_overwrite |-> TRUE, mode |-> "mono"]))
      @@ ("Tasks" :> <<"particletype">>) @@ pred :
        fl \in Opt("file_list", FileListValues),
        pred \in Opt("Prediction",
                     {Prediction(p, l) : p \in {PredTxt, PredH5, PredCsv},
                                         l \in {"gamma", "proton"}}) }

\* exactly one list file is on disk
Disks == {(p :> f) : p \in {TrainTxt, PredTxt}, f \in Files}

InitFiles == Enter(FilesConfigs, Modes, Disks)

SpecFiles == InitFiles /\ [][NextReader]_vars

\* --- tasks -----------------------------------------------------------

\* the keys of config other than Tasks and Data_format
OtherKeys ==
    { [data |-> ao @@ ei @@ tr, save |-> sv] :
        ao \in Opt("allow_overwrite", BOOLEAN),
        ei \in Opt("event_info", {<<"mc_energy", "event_id">>}),
        tr \in Opt("transforms", {TransformEntries(<<Entry("MCEnergy")>>)}),
        sv \in Opt("save_identifiers", {TRUE}) }

TasksConfig(tasks, fmt, other) ==
    ("Data" :> (other.data @@ [file_list |-> PyList(<<TrainH5>>), mode |-> "stereo"]))
    @@ ("Tasks" :> tasks)
    @@ fmt
    @@ ("Prediction" :> (other.save @@ Prediction(PredH5, "gamma")))

Formats == Opt("Data_format", {"dl1dh", "stage1"})

TasksConfigs ==
    { TasksConfig(tasks, fmt, other) :
        tasks \in SeqsUpTo(TaskNames, MaxTasks), fmt \in Formats,
        other \in OtherKeys }

InitTasks == Enter(TasksConfigs, {"train", "load_only", "predict"}, {(PredTxt :> <<>>)})

SpecTasks == InitTasks /\ [][NextReader]_vars

\* --- identifiers -------------------------------------------------------

IdsConfigs ==
    { ("Data" :> (ei @@ ai @@ dm
                  @@ [file_list |-> PyList(<<TrainH5>>), allow_overwrite |-> ao]))
      @@ ("Tasks" :> tasks) @@ pred :
        ei \in Opt("event_info", {<<"mc_energy", "event_id">>}),
        ai \in Opt("array_info", {<<"x", "y">>}),
        dm \in Opt("mode", {"mono", "stereo"})
                  \cup {[mode |-> "mono", mapping_settings |-> ms] :
                            ms \in Opt("interpolation_image_shape",
                                       {("LSTCam" :> ShapeList(<<110, 110, 1>>))})},
        ao \in BOOLEAN,
        tasks \in {<<>>, <<"energy">>},
        pred \in Opt("Prediction",
                     {sv @@ Prediction(PredH5, "gamma") :
                         sv \in Opt("save_identifiers", BOOLEAN)}) }

InitIds == Enter(IdsConfigs, Modes, {(PredTxt :> <<>>)})

SpecIds == InitIds /\ [][NextReader]_vars

\* --- filters and transforms ----------------------------------------------

\* a user's own version of a standard filter
UserFilter ==
    [name |-> "event_intensity_filter", module |-> "user_filters",
     path |-> SomePath("/opt/user")]

FilterEntries ==
    { Entry("event_intensity_filter"),
      EntryArgs("image_intensity_filter", ("min_value" :> "50")),
      UserFilter,
      Entry("no_such_filter") }

TransformEntrySamples ==
    { Entry("MCEnergy"),
      [name |-> "my_filter", module |-> "user_filters"],
      [name |-> "AltAz", args |-> NoneArgs] }

FiltersConfigs ==
    { ("Data" :> (es @@ is @@ tr
                  @@ [file_list |-> PyList(<<TrainH5>>), allow_overwrite |-> ao,
                      mode |-> "mono"]))
      @@ ("Tasks" :> <<"energy">>) @@ fmt :
        es \in Opt("event_selection",
                   {SelectionList(l) : l \in SeqsUpTo(FilterEntries, MaxEntries)}),
        is \in Opt("image_selection",
                   {SelectionList(<<EntryArgs("image_intensity_filter",
                                              ("min_value" :> "50"))>>),
                    SelectionList(<<UserFilter>>)}),
        tr \in Opt("transforms",
                   {TransformEntries(l) :
                       l \in SeqsUpTo(TransformEntrySamples, MaxEntries)}),
        ao \in BOOLEAN,
        fmt \in Opt("Data_format", {"dl1dh"}) }

InitFilters == Enter(FiltersConfigs, {"train"}, {(PredTxt :> <<>>)})

SpecFilters == InitFilters /\ [][NextReader]_vars

\* --- load_from_module and setup_logging, called directly --------------------

Idle ==
    /\ config = ("Data" :> EmptyDict)
    /\ config0 = config
    /\ mode = "train"
    /\ fs = (PredTxt :> <<>>)
    /\ pc = "idle"
    /\ exc = "none"
    /\ frame = Frame0
    /\ loaded = Loaded0
    /\ clock = 0
    /\ log_call = LogCall0

InitLoad ==
    /\ Idle
    /\ sys_path \in SeqsUpTo(PathPool, MaxSysPath)
    /\ sys_path0 = sys_path
    /\ logger = Logger0

SpecLoad == InitLoad /\ [][NextLoad]_vars

\* handlers left on the root logger by whatever ran before
OldHandlers == {<<>>, <<StreamHandler(0)>>, <<StreamHandler(0), StreamHandler(0)>>}

InitLog ==
    /\ Idle
    /\ sys_path = <<"site-packages">>
    /\ sys_path0 = sys_path
    /\ logger \in {[level |-> "WARNING", handlers |-> h] : h \in OldHandlers}

SpecLog == InitLog /\ [][NextLog]_vars

----------------------------------------------------------------------------
(* Properties of the file-list block, checked under SpecFiles. *)

TrainModes == {"train", "load_only"}

\* r is s without its leading and trailing whitespace
IsStripped(r, s) ==
    \E i \in 1..(Len(s) + 1), j \in 0..Len(s) :
        /\ r = SubSeq(s, i, j)
        /\ \A k \in 1..(i - 1) : s[k] \in Whitespace
        /\ \A k \in (j + 1)..Len(s) : s[k] \in Whitespace
        /\ r = <<>> \/ (r[1] \notin Whitespace /\ r[Len(r)] \notin Whitespace)

Stripped(s) ==
    CHOOSE r \in {SubSeq(s, i, j) : i \in 1..(Len(s) + 1), j \in 0..Len(s)} :
        IsStripped(r, s)

IsDataLine(l) == l # <<>> /\ l[1] # "#"

\* the stripped, non-empty, non-comment lines of a file, in the file's order
DataLines(lines) ==
    SelectSeq([i \in DOMAIN lines |-> Stripped(lines[i])], IsDataLine)

\* C1: in mode 'train' or 'load_only', a call that returns leaves in
\* Data['file_list'] the stripped non-empty non-'#' lines of the file, in order
\* and with duplicates, when file_list was a path, and the list it was given
\* when file_list was a list.
C1_FileListResolved ==
    (pc = "returned" /\ mode \in TrainModes) =>
        IF config0.Data.file_list.type = "str"
        THEN config.Data.file_list
                 = PyList(DataLines(fs[config0.Data.file_list.str]))
        ELSE config.Data.file_list = config0.Data.file_list

C1_Witness ==
    /\ pc = "returned"
    /\ mode = "load_only"
    /\ config0.Data.file_list = PyStr(TrainTxt)
    /\ fs[TrainTxt] = << <<" ", "a", " ", "\n">>, <<"\t", "#", "\n">> >>
    /\ config.Data.file_list = PyList(<< <<"a">> >>)

\* C5: in mode 'train' or 'load_only', a file_list that is neither a str nor a
\* list ends the call with ValueError, config being as it was given; and past
\* the file-list block Data['file_list'] is a list.
C5_InvalidFileList ==
    /\ ( /\ mode \in TrainModes
         /\ "file_list" \in DOMAIN config0.Data
         /\ config0.Data.file_list.type \notin {"str", "list"} )
       => \/ pc = "file_list"
          \/ /\ pc = "raised"
             /\ exc = "ValueError"
             /\ config = config0
             /\ frame = Frame0
             /\ sys_path = sys_path0
    /\ pc \in {"options", "select", "transforms", "mapping", "identifiers", "returned"}
       => /\ "file_list" \in DOMAIN config.Data
          /\ config.Data.file_list.type = "list"

C5_Witness ==
    /\ pc = "raised"
    /\ exc = "ValueError"
    /\ mode = "train"
    /\ config0.Data.file_list = PyNone

PredictionPath(cfg) ==
    cfg.Prediction.prediction_file_lists[cfg.Prediction.prediction_label]

HasPredictionPath(cfg) ==
    /\ "Prediction" \in DOMAIN cfg
    /\ cfg.Prediction.prediction_label \in DOMAIN cfg.Prediction.prediction_file_lists

Suffix(path) == IF path = <<>> THEN "" ELSE path[Len(path)]

\* C7: in a mode other than 'train' and 'load_only', the file list comes from
\* the prediction path: the data lines of a '.txt' file, the path itself for
\* '.h5', and ValueError for any other path, whatever Data['file_list'] held.
C7_PredictionFileList ==
    ( /\ mode \notin TrainModes
      /\ HasPredictionPath(config0)
      /\ "file_list" \in DOMAIN config0.Data ) =>
        LET path == PredictionPath(config0)
        IN  /\ Suffix(path) \notin {".txt", ".h5"}
               => pc = "file_list" \/ (pc = "raised" /\ exc = "ValueError")
            /\ pc = "returned"
               => config.Data.file_list =
                      IF Suffix(path) = ".txt"
                      THEN PyList(DataLines(fs[path]))
                      ELSE PyList(<<path>>)

----------------------------------------------------------------------------
(* Properties of the task selection, checked under SpecTasks. *)

TaskOrder == <<"particletype", "energy", "direction">>

Columns(task, dl1dh) ==
    CASE task = "particletype" ->
            IF dl1dh THEN <<"shower_primary_id">> ELSE <<"true_shower_primary_id">>
      [] task = "energy" ->
            IF dl1dh THEN <<"mc_energy">> ELSE <<"true_energy">>
      [] task = "direction" ->
            IF dl1dh THEN <<"alt", "az">> ELSE <<"true_alt", "true_az">>

TransformName(task, dl1dh) ==
    CASE task = "particletype" -> "ShowerPrimaryID"
      [] task = "energy" -> "MCEnergy"
      [] task = "direction" -> IF dl1dh THEN "AltAz" ELSE "DeltaAltAz_fix_subarray"

IsDl1dh(cfg) == "Data_format" \in DOMAIN cfg /\ cfg.Data_format = "dl1dh"

RECURSIVE SelectedColumns(_, _, _)
SelectedColumns(order, tasks, dl1dh) ==
    IF order = <<>> THEN <<>>
    ELSE (IF \E i \in DOMAIN tasks : tasks[i] = Head(order)
          THEN Columns(Head(order), dl1dh) ELSE <<>>)
         \o SelectedColumns(Tail(order), tasks, dl1dh)

RECURSIVE SelectedNames(_, _, _)
SelectedNames(order, tasks, dl1dh) ==
    IF order = <<>> THEN <<>>
    ELSE (IF \E i \in DOMAIN tasks : tasks[i] = Head(order)
          THEN <<TransformName(Head(order), dl1dh)>> ELSE <<>>)
         \o SelectedNames(Tail(order), tasks, dl1dh)

\* names of the transforms a call left in Data['transforms']
LoadedNames(data) ==
    [i \in DOMAIN data.transforms.objects |-> data.transforms.objects[i].cls.name]

OverwriteAllowed(cfg) ==
    "allow_overwrite" \in DOMAIN cfg.Data /\ cfg.Data.allow_overwrite

WantsIdentifiers(cfg, m) ==
    /\ m = "predict"
    /\ "Prediction" \in DOMAIN cfg
    /\ "save_identifiers" \in DOMAIN cfg.Prediction
    /\ cfg.Prediction.save_identifiers

\* C2 as stated: with allow_overwrite true, the returned event_info and the
\* transforms loaded are those of the requested tasks for the data format, in
\* the order particletype, energy, direction.
C2_TaskSelection ==
    (pc = "returned" /\ OverwriteAllowed(config0)) =>
        /\ config.Data.event_info
               = SelectedColumns(TaskOrder, config0.Tasks, IsDl1dh(config0))
        /\ LoadedNames(config.Data)
               = SelectedNames(TaskOrder, config0.Tasks, IsDl1dh(config0))

\* C2 amended: the same, the returned event_info being followed by 'event_id',
\* 'obs_id' when mode is 'predict' and save_identifiers is true.
C2_TaskSelectionThenIdentifiers ==
    (pc = "returned" /\ OverwriteAllowed(config0)) =>
        /\ config.Data.event_info
               = SelectedColumns(TaskOrder, config0.Tasks, IsDl1dh(config0))
                 \o (IF WantsIdentifiers(config0, mode)
                     THEN <<"event_id", "obs_id">> ELSE <<>>)
        /\ LoadedNames(config.Data)
               = SelectedNames(TaskOrder, config0.Tasks, IsDl1dh(config0))

C2_Witness ==
    /\ pc = "returned"
    /\ OverwriteAllowed(config0)
    /\ config0.Tasks = <<"direction", "particletype">>
    /\ IsDl1dh(config0)
    /\ config.Data.event_info = <<"shower_primary_id", "alt", "az">>
    /\ LoadedNames(config.Data) = <<"ShowerPrimaryID", "AltAz">>

\* Data['event_info'] of a result, with its absence told apart from a value
EventInfoOf(data) ==
    IF "event_info" \in DOMAIN data
    THEN [present |-> TRUE, columns |-> data.event_info]
    ELSE [present |-> FALSE, columns |-> <<>>]

FormatOf(cfg) == [k \in DOMAIN cfg \cap {"Data_format"} |-> cfg[k]]

\* the run on the configuration with the Tasks and Data_format of config0 and
\* with `other` for its other keys selects what the run at hand selected
SameSelection(other, m) ==
    LET r == SetupDL1DataReader(
                 TasksConfig(config0.Tasks, FormatOf(config0), other),
                 m, fs, sys_path0)
    IN  r.exc = "none"
        => /\ EventInfoOf(r.config.Data) = EventInfoOf(config.Data)
           /\ LoadedNames(r.config.Data) = LoadedNames(config.Data)

\* C3 as stated: in mode 'train' or 'load_only', two configurations with the
\* same Tasks and Data_format get the same event_info and transform names,
\* whatever their other keys (allow_overwrite included) hold.
C3_TasksDetermineSelection ==
    (pc = "returned" /\ mode \in TrainModes) =>
        \A other \in OtherKeys, m \in TrainModes : SameSelection(other, m)

\* C3 amended: the same for two configurations that both set allow_overwrite
\* true.
C3_TasksDetermineSelectionOnOverwrite ==
    (pc = "returned" /\ mode \in TrainModes /\ OverwriteAllowed(config0)) =>
        \A other \in OtherKeys, m \in TrainModes :
            ("allow_overwrite" \in DOMAIN other.data /\ other.data.allow_overwrite)
                => SameSelection(other, m)

C3_Witness ==
    /\ pc = "returned"
    /\ mode = "train"
    /\ OverwriteAllowed(config0)
    /\ "event_info" \in DOMAIN config0.Data
    /\ "transforms" \in DOMAIN config0.Data
    /\ config0.Tasks = <<"direction">>
    /\ config.Data.event_info = <<"true_alt", "true_az">>
    /\ LoadedNames(config.Data) = <<"DeltaAltAz_fix_subarray">>

\* C6: a config without Data['allow_overwrite'] is treated as allow_overwrite
\* true: the call does not raise, and returns the task-selected event_info and
\* transforms.
C6_AllowOverwriteOptional ==
    "allow_overwrite" \notin DOMAIN config0.Data =>
        /\ pc # "raised"
        /\ pc = "returned"
           => /\ config.Data.event_info
                     = SelectedColumns(TaskOrder, config0.Tasks, IsDl1dh(config0))
                       \o (IF WantsIdentifiers(config0, mode)
                           THEN <<"event_id", "obs_id">> ELSE <<>>)
              /\ LoadedNames(config.Data)
                     = SelectedNames(TaskOrder, config0.Tasks, IsDl1dh(config0))

----------------------------------------------------------------------------
(* Properties of the identifiers block, checked under SpecIds. *)

ArrayInfoOf(data) ==
    IF "array_info" \in DOMAIN data
    THEN [present |-> TRUE, columns |-> data.array_info]
    ELSE [present |-> FALSE, columns |-> <<>>]

Present(columns) == [present |-> TRUE, columns |-> columns]

IsMono(cfg) == "mode" \in DOMAIN cfg.Data /\ cfg.Data.mode = "mono"

\* what lines 139-152 do to event_info and array_info
IdentifiersStep ==
    pc = "identifiers" =>
        /\ EventInfoOf(config'.Data) =
               IF WantsIdentifiers(config, mode)
               THEN Present(EventInfoOf(config.Data).columns \o <<"event_id", "obs_id">>)
               ELSE EventInfoOf(config.Data)
        /\ ArrayInfoOf(config'.Data) =
               IF WantsIdentifiers(config, mode) /\ IsMono(config)
               THEN Present(Append(ArrayInfoOf(config.Data).columns, "id"))
               ELSE ArrayInfoOf(config.Data)

\* what the blocks before line 139 leave in event_info and array_info
BeforeIdentifiers ==
    pc = "identifiers" =>
        /\ EventInfoOf(config.Data) =
               IF OverwriteAllowed(config0)
               THEN Present(SelectedColumns(TaskOrder, config0.Tasks, IsDl1dh(config0)))
               ELSE EventInfoOf(config0.Data)
        /\ ArrayInfoOf(config.Data) = ArrayInfoOf(config0.Data)

\* C8: 'event_id', 'obs_id' are appended to event_info (created when absent)
\* exactly when mode is 'predict' and save_identifiers is true, and then 'id'
\* is appended to array_info (created when absent) exactly when Data['mode']
\* is 'mono'; otherwise event_info and array_info are left as they were, and
\* no earlier block adds an identifier.
C8_Identifiers == [][IdentifiersStep]_vars /\ []BeforeIdentifiers

C8_Witness ==
    /\ pc = "returned"
    /\ mode = "predict"
    /\ ~OverwriteAllowed(config0)
    /\ EventInfoOf(config.Data)
           = Present(<<"mc_energy", "event_id", "event_id", "obs_id">>)
    /\ ArrayInfoOf(config.Data) = Present(<<"x", "y", "id">>)

----------------------------------------------------------------------------
(* Properties of the loading of filters and transforms, checked under      *)
(* SpecFilters.                                                            *)

EntryModule(entry, default) ==
    IF "module" \in DOMAIN entry THEN entry.module ELSE default

EntryParams(entry) ==
    IF "args" \in DOMAIN entry /\ ~entry.args.isNone THEN entry.args.v ELSE EmptyDict

EntryFn(entry, default) ==
    [module |-> EntryModule(entry, default), name |-> entry.name]

GivenEntries(cfg, key) ==
    IF key \in DOMAIN cfg.Data THEN cfg.Data[key].entries ELSE <<>>

\* the dict with, under each entry's callable, the args of the last entry
\* that names it
FiltersOf(entries) ==
    { [fn |-> EntryFn(entries[i], "dl1_data_handler.filters"),
       params |-> EntryParams(entries[i])] :
        i \in {j \in DOMAIN entries :
                  \A k \in DOMAIN entries :
                      k > j => EntryFn(entries[k], "dl1_data_handler.filters")
                                   # EntryFn(entries[j], "dl1_data_handler.filters")} }

SelectionLoaded(key) ==
    /\ key \in DOMAIN config.Data
    /\ config.Data[key] = SelectionDict(FiltersOf(GivenEntries(config0, key)))

\* each entry of `transformations`, loaded and called with its args, in order
TransformsLoaded ==
    config.Data.transforms =
        TransformObjects(
            [i \in DOMAIN frame.transformations |->
                [cls |-> EntryFn(frame.transformations[i], "dl1_data_handler.transforms"),
                 kwargs |-> EntryParams(frame.transformations[i])]])

\* C4 as stated: a call that returns has loaded every event_selection and
\* image_selection entry from 'dl1_data_handler.filters', or from the entry's
\* own module, and every transform entry from 'dl1_data_handler.transforms',
\* or from the entry's own module, calling it with the entry's args.
C4_LoadedByModuleAndName ==
    pc = "returned" =>
        /\ GivenEntries(config0, "event_selection") # <<>>
               => SelectionLoaded("event_selection")
        /\ GivenEntries(config0, "image_selection") # <<>>
               => SelectionLoaded("image_selection")
        /\ TransformsLoaded

\* C4 amended: the selections are loaded so when the data format is 'dl1dh'.
C4_LoadedByModuleAndNameDl1dh ==
    pc = "returned" =>
        /\ IsDl1dh(config0)
               => SelectionLoaded("event_selection") /\ SelectionLoaded("image_selection")
        /\ TransformsLoaded

C4_Witness ==
    /\ pc = "returned"
    /\ IsDl1dh(config0)
    /\ ~OverwriteAllowed(config0)
    /\ GivenEntries(config0, "event_selection")
           = <<UserFilter, Entry("event_intensity_filter")>>
    /\ config.Data.event_selection.table
           = { [fn |-> [module |-> "user_filters", name |-> "event_intensity_filter"],
                params |-> EmptyDict],
               [fn |-> [module |-> "dl1_data_handler.filters",
                        name |-> "event_intensity_filter"],
                params |-> EmptyDict] }
    /\ Len(config.Data.transforms.objects) = 2
    /\ config.Data.transforms.objects[1].cls.module = "user_filters"
    /\ config.Data.transforms.objects[2].cls.module = "dl1_data_handler.transforms"

----------------------------------------------------------------------------
(* sys.path under direct calls of load_from_module, checked under SpecLoad. *)

\* C10: a call with path None or with a path already in sys.path leaves
\* sys.path as it was, any other call appends its path at the end; so no path
\* occurs more than once more than it did at the start, and the entries of the
\* start stay where they were.
C10_SysPathNoDuplicates ==
    /\ \A p \in PathPool : Count(p, sys_path) <= Count(p, sys_path0) + 1
    /\ Len(sys_path) >= Len(sys_path0)
    /\ SubSeq(sys_path, 1, Len(sys_path0)) = sys_path0
    /\ loaded.name # ""
       => sys_path = IF loaded.path.isNone \/ loaded.path.v \in Range(loaded.before)
                     THEN loaded.before
                     ELSE Append(loaded.before, loaded.path.v)

C10_Witness ==
    /\ Len(sys_path) = Len(sys_path0) + 2
    /\ ~loaded.path.isNone
    /\ loaded.before = sys_path
    /\ loaded.exc = "ModuleNotFoundError"

----------------------------------------------------------------------------
(* The root logger under setup_logging, checked under SpecLog. *)

\* C9: after a setup_logging call that succeeded, the root logger holds one
\* handler, the one that call made (a file handler on <log_dir>/<time>_logfile.log
\* when log_to_file, a stream handler otherwise), and its level is DEBUG when
\* debug and INFO otherwise.
C9_OneHandler ==
    (log_call.n > 0 /\ log_call.exc = "none") =>
        /\ Len(logger.handlers) = 1
        /\ logger.handlers[1].owner = log_call.n
        /\ logger.handlers[1].kind =
               IF log_call.log_to_file THEN "FileHandler" ELSE "StreamHandler"
        /\ log_call.log_to_file
               => logger.handlers[1].filename =
                      [dir |-> log_call.log_dir, time |-> log_call.time,
                       suffix |-> "_logfile.log"]
        /\ logger.level = IF log_call.debug THEN "DEBUG" ELSE "INFO"

C9_Witness ==
    /\ log_call.n = 2
    /\ log_call.exc = "none"
    /\ log_call.log_to_file
    /\ log_call.debug
    /\ logger.level = "DEBUG"
    /\ Len(logger.handlers) = 1
    /\ logger.handlers[1].kind = "FileHandler"
    /\ logger.handlers[1].owner = 2

====
